---- MODULE Spec2Model ----
(***************************************************************************)
(* xDrip Pebble watchface: the inbound-message decoder                     *)
(* (new_xdrip_data_callback) and the state it owns, in the three protocol  *)
(* revisions of the repository that carry a graph payload:                 *)
(*                                                                         *)
(*   "extended"      src/src/c/main.c          6-byte header, uint16       *)
(*                   offsets, values stored as wire byte * 2               *)
(*   "extended_half" src/unnamed/part_000:288  6-byte header, uint16       *)
(*                   offsets, values stored as the raw wire byte           *)
(*   "compact"       src/unnamed/part_001      5-byte header, uint8        *)
(*                   offsets, values stored as wire byte * 2               *)
(*                                                                         *)
(* The two graph arrays have MAX_GRAPH_POINTS entries of static storage,   *)
(* zero until written.  Each is kept as the sequence of its entries up to  *)
(* the highest one written so far, the entries behind it being the zeros   *)
(* they started as; At(array, i) is entry i of the C array.  C strings are *)
(* sequences of character codes, a char buffer is a function on 0..cap-1   *)
(* with 0 as the terminator.  Integers keep their C width (% 2^w) where    *)
(* the code stores them.                                                   *)
(***************************************************************************)
EXTENDS Integers, Sequences, FiniteSets, TLC

\* ------------------------------------------------------------------------
\* Bounds of the model (not program constants)
\* ------------------------------------------------------------------------

\* Small declared point counts 0..MaxSmallCount are enumerated next to the
\* capacity-sized ones.
MaxSmallCount == 2
\* Minute ticks the clock may advance.
MaxTicks == 2
\* The wall clock at process start, in seconds since the epoch.
Now0 == 400000
\* Inbound strings of 0..MaxStrLen characters are enumerated.
MaxStrLen == 7
MaxAnnouncements == 3
MaxRenderCount == 2

\* ------------------------------------------------------------------------
\* Program constants
\* ------------------------------------------------------------------------

Revisions == {"extended", "extended_half", "compact"}

MAX_GRAPH_POINTS_extended == 300
MAX_GRAPH_POINTS_extended_half == 300
MAX_GRAPH_POINTS_compact == 60

MAX_GRAPH_POINTS(r) ==
    CASE r = "extended" -> MAX_GRAPH_POINTS_extended
      [] r = "extended_half" -> MAX_GRAPH_POINTS_extended_half
      [] r = "compact" -> MAX_GRAPH_POINTS_compact

\* `graph_tuple->length >= 6` (extended) / `>= 5` (compact): 4 bytes of
\* reference timestamp and a uint16 / uint8 count.
HEADER_SIZE_extended == 6
HEADER_SIZE_compact == 5

HeaderSize(r) == IF r = "compact" THEN HEADER_SIZE_compact ELSE HEADER_SIZE_extended

\* Bytes of one offset entry on the wire: data[6 + i*2] | data[..+1] << 8
\* (extended), data[5 + i] (compact).
OffsetWidth(r) == IF r = "compact" THEN 1 ELSE 2

\* The largest count the count field can declare (uint16 / uint8).
MaxCountField(r) == IF r = "compact" THEN 255 ELSE 65535

\* `data[...] * 2` (main.c, part_001); the raw byte in part_000.
ValueScale(r) == IF r = "extended_half" THEN 1 ELSE 2

\* sizeof(s_bg_string), sizeof(s_delta_string), sizeof(s_time_ago_buffer)
BG_STRING_SIZE == 5
DELTA_STRING_SIZE == 6
TIME_AGO_BUFFER_SIZE == 4

\* sizeof(ARROWS) / sizeof(ARROWS[0])
ARROWS_LEN == 8

\* #define TEST_MODE: commented out in src/src/c/test_mode.h:6, defined in
\* the test_mode.h that part_001 carries (part_001:430).
TEST_MODE(r) == r = "compact"
TEST_GRAPH_COUNT == 36
TEST_MINUTES_AGO == 3
TEST_ARROW_INDEX == 4
\* The hours of history behind the test graph: GRAPH_HOURS in part_000,
\* the literal 3 in part_001:375.
TEST_GRAPH_HOURS == 3

U8 == 256
U16 == 65536

\* A uint32_t is kept as its two 16-bit halves <<high, low>>: TLC's integers
\* have 32 signed bits, the program's timestamps 32 unsigned ones.
U32Of(n) == <<(n \div U16) % U16, n % U16>>
U32Zero == <<0, 0>>
U32Max == <<U16 - 1, U16 - 1>>

\* (a - b) in 32 unsigned bits
U32Sub(a, b) ==
    LET low == a[2] - b[2]
        borrow == IF low < 0 THEN 1 ELSE 0
    IN <<(a[1] - b[1] - borrow) % U16, low % U16>>

\* (a + b) in 32 unsigned bits
U32Add(a, b) ==
    LET low == a[2] + b[2]
        carry == IF low >= U16 THEN 1 ELSE 0
    IN <<(a[1] + b[1] + carry) % U16, low % U16>>

\* a / b of two ints, b # 0: the quotient truncated towards zero
CDiv(a, b) ==
    LET q == (IF a < 0 THEN -a ELSE a) \div (IF b < 0 THEN -b ELSE b)
    IN IF (a < 0) # (b < 0) THEN -q ELSE q

\* a / 60 (below 2^27, an int)
U32Div60(a) == (a[1] \div 60) * U16 + (((a[1] % 60) * U16 + a[2]) \div 60)

\* byte b (0 the lowest) of a
U32Byte(a, b) == IF b < 2 THEN (a[2] \div (U8 ^ b)) % U8 ELSE (a[1] \div (U8 ^ (b - 2))) % U8

\* ------------------------------------------------------------------------
\* Strings and buffers
\* ------------------------------------------------------------------------

\* "---", "" , TEST_BG_STRING "10.2", TEST_DELTA_STRING "+0.3" as character codes
STR_DASHES == <<45, 45, 45>>
STR_EMPTY == <<>>
TEST_BG_STRING == <<49, 48, 46, 50>>
TEST_DELTA_STRING == <<43, 48, 46, 51>>

\* A char array initialised from a string literal: the characters, then
\* zeros up to its size.
BufferOf(str, size) == [k \in 0..(size - 1) |-> IF k < Len(str) THEN str[k + 1] ELSE 0]

\* strncpy(dest, src, count) copies at most count characters of src and pads
\* the rest of the count bytes with zeros; then dest[count - 1] = '\0'.
safe_strncpy_NoTerminator(dest, src, count) ==
    IF count > 0
    THEN [k \in DOMAIN dest |-> IF k < count
                                THEN (IF k < Len(src) THEN src[k + 1] ELSE 0)
                                ELSE dest[k]]
    ELSE dest

safe_strncpy(dest, src, count) ==
    IF count > 0
    THEN [k \in DOMAIN dest |-> IF k = count - 1 THEN 0
                                ELSE IF k < count
                                THEN (IF k < Len(src) THEN src[k + 1] ELSE 0)
                                ELSE dest[k]]
    ELSE dest

\* The indices of dest that safe_strncpy(dest, src, count) writes: strncpy
\* writes exactly count bytes, dest[0] .. dest[count - 1], whatever the
\* length of src, and the terminator goes to dest[count - 1].
safe_strncpy_Writes(count) == IF count > 0 THEN 0..(count - 1) ELSE {}

\* The C string a buffer holds: its characters before the first zero.
RECURSIVE CStrFrom(_, _)
CStrFrom(buf, k) ==
    IF k \notin DOMAIN buf \/ buf[k] = 0 THEN <<>>
    ELSE <<buf[k]>> \o CStrFrom(buf, k + 1)

CStr(buf) == CStrFrom(buf, 0)

\* The decimal digits of n >= 0 as character codes ("%d").
RECURSIVE Digits(_)
Digits(n) == IF n < 10 THEN <<48 + n>> ELSE Digits(n \div 10) \o <<48 + (n % 10)>>

\* snprintf(buf, size, fmt, ...): at most size - 1 characters of the
\* formatted text, then a terminator; the bytes after it are left alone.
snprintf(buf, size, text) ==
    LET n == IF Len(text) < size - 1 THEN Len(text) ELSE size - 1
    IN [k \in DOMAIN buf |-> IF k < n THEN text[k + 1]
                             ELSE IF k = n THEN 0
                             ELSE buf[k]]

\* ------------------------------------------------------------------------
\* Inbound messages
\* ------------------------------------------------------------------------

\* The keys a message may carry (KEY_BG_TIMESTAMP, KEY_BG_STRING,
\* KEY_DELTA_STRING, KEY_ARROW_INDEX, KEY_GRAPH_DATA, KEY_GRAPH_HIGH_LINE,
\* KEY_GRAPH_LOW_LINE and KEY_PHONE_BATTERY, which no revision reads).
KeyNames == {"timestamp", "bg", "delta", "arrow", "graph", "high", "low", "battery"}

\* A graph payload is described by what its sender put in it: the reference
\* timestamp, the count n its header declares, the number pts of points it
\* really encodes (pts offsets, then pts value bytes), the pattern of those
\* points (seed) and the length len it is cut or padded to.
\* Seeds 0 and 1 are series of long ago, a point every 5 minutes; seeds 2 to 4
\* are recent: every 5 minutes, two readings of the same minute, every minute.
SeedBase(sd) == IF sd = 1 THEN 300 ELSE IF sd = 3 THEN 10 ELSE 0
SeedStep(sd) == IF sd = 3 THEN 0 ELSE IF sd = 4 THEN 1 ELSE 5
SenderOffset(r, g, i) == (SeedStep(g.seed) * i + SeedBase(g.seed)) % (U8 ^ OffsetWidth(r))
SenderValue(g, i) == (50 + 10 * i + 7 * g.seed) % U8
FillerByte == 170

ByteOf(x, b) == (x \div (U8 ^ b)) % U8

PayloadByte(r, g, k) ==
    LET H == HeaderSize(r)
        w == OffsetWidth(r)
    IN IF k < 4 THEN U32Byte(g.ref, k)
       ELSE IF k < H THEN ByteOf(g.n, k - 4)
       ELSE IF k < H + w * g.pts
            THEN ByteOf(SenderOffset(r, g, (k - H) \div w), (k - H) % w)
       ELSE IF k < H + (w + 1) * g.pts
            THEN SenderValue(g, k - H - w * g.pts)
       ELSE FillerByte

\* graph_tuple->value->data, of graph_tuple->length bytes: the payload's
\* bytes as an array (the decoder reads them one at a time, through DataAt).
Payload(r, g) == [k \in 0..(g.len - 1) |-> PayloadByte(r, g, k)]

\* A scalar tuple as it lies in the inbox buffer: len bytes holding val,
\* little-endian, and the byte that follows them there (next): the low byte
\* of the next tuple's key, or what lies behind the dictionary.
Tuple8(v, next) == [len |-> 1, val |-> v, next |-> next]
Tuple16(v) == [len |-> 2, val |-> v, next |-> 0]

\* tuple->value->uint8: the first byte of the value.
TupleUint8(t) == t.val % U8

\* tuple->value->uint16: two bytes at the value's address.  For a one-byte
\* tuple the second byte is not part of the tuple: it is the byte that
\* happens to follow it in the inbox buffer.
TupleUint16(t) == IF t.len >= 2 THEN t.val % U16 ELSE (t.val % U8) + U8 * t.next

\* ------------------------------------------------------------------------
\* State
\* ------------------------------------------------------------------------

VARIABLES
    rev,                    \* the protocol revision the build is of
    pc,                     \* main(): "start", "running" (app_event_loop), "exited"
    now,                    \* time(NULL)
    s_bg_timestamp,
    s_bg_string,
    s_delta_string,
    s_arrow_index,
    s_time_ago_buffer,
    s_graph_ref_timestamp,
    s_graph_count,
    s_graph_offsets,
    s_graph_bg_values,
    s_graph_high_line,
    s_graph_low_line,
    window_loaded,          \* the layers window_load creates exist
    bg_layer_text,          \* s_bg_layer shows s_bg_string
    delta_layer_text,       \* s_delta_layer shows s_delta_string
    time_ago_layer_text,    \* s_time_ago_layer shows s_time_ago_buffer
    s_arrow_bitmap,         \* 0 (NULL) or the index of the ARROWS resource
    arrow_layer_bitmap,     \* what s_arrow_layer shows: 0 (NULL) or a resource
    graph_dirty,            \* s_graph_layer is marked dirty
    last_msg,               \* the message of the last inbox callback
    graph_outcome,          \* what the last callback did with graph_data
    data_idx,               \* the payload indices the last callback read
    arr_idx,                \* the graph array indices the last callback used
    pts_written,            \* the leading points the writer of the header wrote
    str_writes,             \* the indices of s_bg_string / s_delta_string the last callback wrote
    reading_src,            \* the fields of the reading the last callback stored
    data_seen,              \* a data message has been received since the start
    redelivered,            \* the last callback's message was the one before it too
    graph_drawn,            \* what the last run of graph_layer_update_proc drew
    announcements,          \* the calls of send_capability_announcement so far
    outbox,                 \* what the last of them did with the outbox
    connects,               \* the connection callbacks with connected = true so far
    lifecycle,              \* the service and window calls of init and deinit, in order
    heap                    \* the GBitmaps allocated, and whether one was destroyed twice

readingVars == <<s_bg_timestamp, s_bg_string, s_delta_string, s_arrow_index>>
seriesVars == <<s_graph_ref_timestamp, s_graph_count, s_graph_offsets, s_graph_bg_values>>
thresholdVars == <<s_graph_high_line, s_graph_low_line>>
decoderVars == <<readingVars, seriesVars, thresholdVars>>
displayVars == <<s_time_ago_buffer, window_loaded, bg_layer_text, delta_layer_text,
                 time_ago_layer_text, s_arrow_bitmap, arrow_layer_bitmap, graph_dirty>>
ghostVars == <<last_msg, graph_outcome, data_idx, arr_idx, pts_written, str_writes,
               reading_src, data_seen, redelivered>>
outboxVars == <<announcements, outbox, connects>>
platformVars == <<graph_drawn, outboxVars, lifecycle>>
vars == <<rev, pc, now, decoderVars, displayVars, ghostVars, platformVars, heap>>

GraphIndices(r) == 0..(MAX_GRAPH_POINTS(r) - 1)

\* array[i], for a graph array kept as the sequence of its entries up to
\* the highest one written
At(array, i) == IF i < Len(array) THEN array[i + 1] ELSE 0

\* The array after array[i] = entries[i] for every i < count.
StoreFirst_Added(array, count, entries) ==
    [k \in 1..(IF count > Len(array) THEN count ELSE Len(array)) |->
        IF k - 1 < count THEN (At(array, k - 1) + entries[k - 1]) % 65536 ELSE array[k]]
StoreFirst(array, count, entries) ==
    [k \in 1..(IF count > Len(array) THEN count ELSE Len(array)) |->
        IF k - 1 < count THEN entries[k - 1] ELSE array[k]]

\* The indices a callback used, summed up: how many, the lowest, the highest.
NoIndices == [n |-> 0, lo |-> 0, hi |-> -1]
IndexRange(S) ==
    IF S = {} THEN NoIndices
    ELSE [n |-> Cardinality(S),
          lo |-> CHOOSE x \in S : \A y \in S : x <= y,
          hi |-> CHOOSE x \in S : \A y \in S : x >= y]

NoGraph == [ref |-> U32Zero, n |-> 0, pts |-> 0, len |-> 0, seed |-> 0]

NoMsg ==
    [keys |-> {}, ts |-> U32Zero, bg |-> <<>>, delta |-> <<>>, arrow |-> 0,
     graph |-> NoGraph, high |-> Tuple8(0, 0), low |-> Tuple8(0, 0)]

\* The static initialisers.  The graph arrays have static storage and start
\* zeroed; the thresholds start at 180 / 72 (mg/dL) or 90 / 36 (mg/dL / 2).
INIT_HIGH_LINE(r) == IF r = "extended_half" THEN 90 ELSE 180
INIT_LOW_LINE(r) == IF r = "extended_half" THEN 36 ELSE 72

\* The outbox before the first announcement.
NoOutbox == [begin |-> "none", fields |-> {}, send |-> "none"]

\* The graph layer before its update procedure ran.
NoDrawing ==
    [ran |-> FALSE, content |-> FALSE, high_y |-> 0, low_y |-> 0,
     points |-> <<>>, dots |-> <<>>, div0 |-> FALSE]

Init ==
    /\ rev \in Revisions
    /\ pc = "start"
    /\ now = Now0
    /\ s_bg_timestamp = U32Zero
    /\ s_bg_string = BufferOf(STR_DASHES, BG_STRING_SIZE)
    /\ s_delta_string = BufferOf(STR_EMPTY, DELTA_STRING_SIZE)
    /\ s_arrow_index = 0
    /\ s_time_ago_buffer = BufferOf(STR_EMPTY, TIME_AGO_BUFFER_SIZE)
    /\ s_graph_ref_timestamp = U32Zero
    /\ s_graph_count = 0
    /\ s_graph_offsets = <<>>
    /\ s_graph_bg_values = <<>>
    /\ s_graph_high_line = INIT_HIGH_LINE(rev)
    /\ s_graph_low_line = INIT_LOW_LINE(rev)
    /\ window_loaded = FALSE
    /\ bg_layer_text = FALSE
    /\ delta_layer_text = FALSE
    /\ time_ago_layer_text = FALSE
    /\ s_arrow_bitmap = 0
    /\ arrow_layer_bitmap = 0
    /\ graph_dirty = FALSE
    /\ last_msg = NoMsg
    /\ graph_outcome = "none"
    /\ data_idx = NoIndices
    /\ arr_idx = NoIndices
    /\ pts_written = 0
    /\ str_writes = [bg |-> NoIndices, delta |-> NoIndices]
    /\ reading_src = {}
    /\ data_seen = FALSE
    /\ redelivered = FALSE
    /\ graph_drawn = NoDrawing
    /\ announcements = 0
    /\ outbox = NoOutbox
    /\ connects = 0
    /\ lifecycle = <<>>
    /\ heap = [live |-> 0, destroyed_twice |-> FALSE]

\* ------------------------------------------------------------------------
\* update_displayed_time_ago, update_displayed_xdrip_data
\* ------------------------------------------------------------------------

\* const int minutes_ago = (time(NULL) - s_bg_timestamp) / 60;
\* the subtraction is done in 32 unsigned bits.
MinutesAgo(t, ts) == U32Div60(U32Sub(U32Of(t), ts))

\* "%dm" below an hour, "%dh" from there on ('m' is 109, 'h' is 104).
TimeAgoText_MinutesOnly(minutes_ago) == Digits(minutes_ago) \o <<109>>
TimeAgoText(minutes_ago) ==
    IF minutes_ago < 60
    THEN Digits(minutes_ago) \o <<109>>
    ELSE Digits(minutes_ago \div 60) \o <<104>>

\* s_time_ago_buffer after update_displayed_time_ago() with timestamp ts
TimeAgoBufferAfter(buf, t, ts) ==
    IF ts = U32Zero THEN buf
    ELSE snprintf(buf, TIME_AGO_BUFFER_SIZE, TimeAgoText(MinutesAgo(t, ts)))

\* text_layer_set_text(s_time_ago_layer, ...) is reached only past the
\* early return.
TimeAgoLayerAfter(shown, ts) == IF ts = U32Zero THEN shown ELSE TRUE

\* if (s_arrow_index > 0 && s_arrow_index < sizeof(ARROWS) / sizeof(ARROWS[0]))
\* the bitmap of ARROWS[s_arrow_index] is created and shown, else none is.
\* part_000 has no arrow bitmap at all.
ArrowShown_NoUpperBound(r, index) ==
    IF r # "extended_half" /\ index > 0 THEN index ELSE 0
ArrowShown(r, index) ==
    IF r # "extended_half" /\ index > 0 /\ index < ARROWS_LEN THEN index ELSE 0

\* ------------------------------------------------------------------------
\* new_xdrip_data_callback: the graph payload
\* ------------------------------------------------------------------------

\* data[k], data being the payload g describes, in revision r's layout; a
\* read past the payload is recorded in data_idx and yields whatever lies
\* there.
DataAt(data, k) ==
    IF 0 <= k /\ k < data.g.len THEN PayloadByte(data.r, data.g, k) ELSE FillerByte

\* if (graph_tuple && graph_tuple->length >= 6)
HeaderPresent_Always(r, present, length) == present
HeaderPresent(r, present, length) == present /\ length >= HeaderSize(r)

\* data[0] | (data[1] << 8) | (data[2] << 16) | (data[3] << 24), stored in
\* a uint32_t (gcc defines the shift into the sign bit: the bits are kept).
RefTimestamp_BigEndian(data) ==
    <<(DataAt(data, 1) + U8 * DataAt(data, 0)) % U16,
      (DataAt(data, 3) + U8 * DataAt(data, 2)) % U16>>
RefTimestamp(data) ==
    <<(DataAt(data, 2) + U8 * DataAt(data, 3)) % U16,
      (DataAt(data, 0) + U8 * DataAt(data, 1)) % U16>>

\* data[4] | (data[5] << 8) in a uint16_t; data[4] in a uint8_t (compact)
RawCount(r, data) ==
    IF r = "compact" THEN DataAt(data, 4)
    ELSE (DataAt(data, 4) + U8 * DataAt(data, 5)) % U16

\* if (s_graph_count > MAX_GRAPH_POINTS) s_graph_count = MAX_GRAPH_POINTS;
ClampCount_NoClamp(r, raw) == raw
ClampCount(r, raw) == IF raw > MAX_GRAPH_POINTS(r) THEN MAX_GRAPH_POINTS(r) ELSE raw

\* int expected_size = 6 + (s_graph_count * 3);   5 + s_graph_count * 2
ExpectedSize_OffsetsOnly(r, count) == HeaderSize(r) + count * OffsetWidth(r)
ExpectedSize(r, count) == HeaderSize(r) + count * (OffsetWidth(r) + 1)

\* if (graph_tuple->length >= expected_size)
LongEnough(length, expected) == length >= expected

\* data[offset_idx] | (data[offset_idx + 1] << 8) with offset_idx = 6 + i*2;
\* data[5 + i] (compact)
OffsetIndices(r, i) ==
    IF r = "compact" THEN {HeaderSize(r) + i}
    ELSE {HeaderSize(r) + i * 2, HeaderSize(r) + i * 2 + 1}

DecodeOffset(r, data, i) ==
    IF r = "compact" THEN DataAt(data, HeaderSize(r) + i)
    ELSE (DataAt(data, HeaderSize(r) + i * 2)
            + U8 * DataAt(data, HeaderSize(r) + i * 2 + 1)) % U16

\* data[6 + (s_graph_count * 2) + i] * 2 in a uint16_t; the raw byte in a
\* uint8_t (part_000)
ValueIndex(r, count, i) == HeaderSize(r) + count * OffsetWidth(r) + i

DecodeValue(r, data, count, i) ==
    IF r = "extended_half" THEN DataAt(data, ValueIndex(r, count, i)) % U8
    ELSE (DataAt(data, ValueIndex(r, count, i)) * 2) % U16

\* The array indices of the "First point" / "Last point" log lines:
\* s_graph_offsets[0], s_graph_bg_values[0], s_graph_offsets[s_graph_count - 1],
\* s_graph_bg_values[s_graph_count - 1].  part_001 logs only the count.
LoggedIndices(r, count) == IF r = "compact" THEN {} ELSE {0, count - 1}

\* The threshold keys: `->value->uint16` into a uint16_t (main.c, part_001),
\* `->value->uint8` into a uint8_t (part_000).
ThresholdValue_Unread(r, t) == INIT_HIGH_LINE(r)
ThresholdValue(r, t) == IF r = "extended_half" THEN TupleUint8(t) ELSE TupleUint16(t)

\* Tuple *timestamp_tuple = dict_find(iter, KEY_BG_TIMESTAMP);
\* if (timestamp_tuple) { ... the whole of the decoding ... }
IsDataMessage_Always(m) == TRUE
IsDataMessage(m) == "timestamp" \in m.keys

\* The graph branch of new_xdrip_data_callback on the payload g, up to the
\* stores into the static arrays: what it reads, whether it gets past the
\* two length checks, and the header and points it decodes.
DecodeGraph(r, g) ==
    LET data == [r |-> r, g |-> g]
        length == g.len
        header == HeaderPresent(r, TRUE, length)
        count == ClampCount(r, RawCount(r, data))
        accepted == header /\ LongEnough(length, ExpectedSize(r, count))
    IN [header |-> header,
        ref |-> IF header THEN RefTimestamp(data) ELSE U32Zero,
        count |-> IF header THEN count ELSE 0,
        accepted |-> accepted,
        offsets |-> IF accepted THEN [i \in 0..(count - 1) |-> DecodeOffset(r, data, i)]
                    ELSE <<>>,
        values |-> IF accepted
                   THEN [i \in 0..(count - 1) |-> DecodeValue(r, data, count, i)]
                   ELSE <<>>,
        data_idx |-> IndexRange(
                     IF ~header THEN {}
                     ELSE (0..(HeaderSize(r) - 1))
                          \cup (IF accepted
                                THEN UNION {OffsetIndices(r, i) : i \in 0..(count - 1)}
                                     \cup {ValueIndex(r, count, i) : i \in 0..(count - 1)}
                                ELSE {})),
        arr_idx |-> IndexRange(
                     IF accepted THEN (0..(count - 1)) \cup LoggedIndices(r, count)
                     ELSE {})]

\* ------------------------------------------------------------------------
\* The inputs
\* ------------------------------------------------------------------------

Min(a, b) == IF a < b THEN a ELSE b

\* Two senders' series: the scenario's (reference timestamp 1000, offsets
\* 0, 5, ..., values 50, 60, ...) and one with the largest uint32 as its
\* reference timestamp and other points.
Seeds == {0, 1}
RefOfSeed(sd) ==
    IF sd = 0 THEN U32Of(1000)
    ELSE IF sd = 1 THEN U32Max
    ELSE IF sd = 4 THEN U32Of(Now0 - 60)
    ELSE U32Of(Now0 - 3600)

\* The length of a payload of c points in full.
FullLength(r, c) == HeaderSize(r) + c * (OffsetWidth(r) + 1)

\* Declared counts: the small ones, the capacity, one above it.
CountSet(r) == (0..MaxSmallCount) \cup {MAX_GRAPH_POINTS(r), MAX_GRAPH_POINTS(r) + 1}

\* Payloads their sender encoded in full: n points declared, n encoded.
WellFormedPayloads(r) ==
    {[ref |-> RefOfSeed(sd), n |-> c, pts |-> c, len |-> FullLength(r, c), seed |-> sd] :
        c \in CountSet(r), sd \in Seeds}

\* The same cut short: to nothing, to one byte less than the header, to the
\* header alone, to one byte less than the capacity-clamped count needs.
TruncatedPayloads(r) ==
    UNION {{[ref |-> U32Of(1000), n |-> c, pts |-> c, len |-> l, seed |-> 0] :
               l \in {0, HeaderSize(r) - 1, HeaderSize(r),
                      FullLength(r, Min(c, MAX_GRAPH_POINTS(r))) - 1}} :
           c \in {MaxSmallCount, MAX_GRAPH_POINTS(r) + 1}}

\* The largest declarable count over a capacity's worth of points, one byte
\* short of it, and a one-point payload with a byte to spare.
OverclaimedPayloads(r) ==
    {[ref |-> U32Of(1000), n |-> MaxCountField(r), pts |-> MAX_GRAPH_POINTS(r), len |-> l,
      seed |-> 0] :
        l \in {FullLength(r, MAX_GRAPH_POINTS(r)) - 1, FullLength(r, MAX_GRAPH_POINTS(r))}}
    \cup {[ref |-> U32Of(1000), n |-> 1, pts |-> 1, len |-> FullLength(r, 1) + 1, seed |-> 0]}

GraphPayloads(r) == WellFormedPayloads(r) \cup TruncatedPayloads(r) \cup OverclaimedPayloads(r)

\* A reading's timestamp two minutes before the process started.
MsgTimestamp == U32Of(Now0 - 120)

\* Data messages that carry a timestamp and a graph payload, or the
\* timestamp alone.
GraphMessages(r) ==
    {[NoMsg EXCEPT !.keys = {"timestamp", "graph"}, !.ts = MsgTimestamp, !.graph = g] :
        g \in GraphPayloads(r)}
    \cup {[NoMsg EXCEPT !.keys = {"timestamp"}, !.ts = MsgTimestamp]}

\* The fields of a message in two variants.  The first: "123", "+5", arrow
\* 4, the thresholds as two-byte tuples (180, 72 mg/dL), a two-point graph.
\* The second: a bg string longer than its buffer ("12.345"), arrow 9, and
\* the high threshold as the revision's protocol header documents it: for
\* main.c and part_000 a one-byte tuple in mg/dL / 2 (90), followed in the
\* inbox by the low byte of the next tuple's key; for part_001 a two-byte
\* tuple in mg/dL.
BG_SHORT == <<49, 50, 51>>
BG_LONG == <<49, 50, 46, 51, 52, 53>>
DELTA_SHORT == <<43, 53>>
KEY_GRAPH_LOW_LINE == 16
FieldGraph == [ref |-> U32Of(1000), n |-> 2, pts |-> 2, len |-> 0, seed |-> 0]

FieldValues(r, v) ==
    [NoMsg EXCEPT !.ts = MsgTimestamp,
                  !.bg = IF v = 1 THEN BG_SHORT ELSE BG_LONG,
                  !.delta = DELTA_SHORT,
                  !.arrow = IF v = 1 THEN 4 ELSE 9,
                  !.graph = [FieldGraph EXCEPT !.len = FullLength(r, 2)],
                  !.high = IF v = 1 THEN Tuple16(180)
                           ELSE IF r = "compact" THEN Tuple16(200)
                           ELSE Tuple8(90, KEY_GRAPH_LOW_LINE),
                  !.low = Tuple16(72)]

OptionalKeys == KeyNames \ {"timestamp"}

\* The key sets: a data message with no optional key, with one, with all of
\* them; a message without the timestamp with none, one or all of them.
FieldKeySets ==
    {{"timestamp"}, KeyNames, {}, OptionalKeys}
    \cup {{"timestamp", k} : k \in OptionalKeys}
    \cup {{k} : k \in {"bg", "graph", "high"}}

\* A message carries values for the keys it has only.
MessageOf(r, ks, v) ==
    LET f == FieldValues(r, v)
    IN [keys |-> ks,
        ts |-> IF "timestamp" \in ks THEN f.ts ELSE NoMsg.ts,
        bg |-> IF "bg" \in ks THEN f.bg ELSE NoMsg.bg,
        delta |-> IF "delta" \in ks THEN f.delta ELSE NoMsg.delta,
        arrow |-> IF "arrow" \in ks THEN f.arrow ELSE NoMsg.arrow,
        graph |-> IF "graph" \in ks THEN f.graph ELSE NoMsg.graph,
        high |-> IF "high" \in ks THEN f.high ELSE NoMsg.high,
        low |-> IF "low" \in ks THEN f.low ELSE NoMsg.low]

FieldMessages(r) == {MessageOf(r, ks, v) : ks \in FieldKeySets, v \in {1, 2}}

\* bg_tuple->value->cstring, delta_tuple->value->cstring: strings of every
\* length from empty to longer than either buffer, "1", "12", "123", ...
StrOfLen(n) == [k \in 1..n |-> 48 + k]

StringMessages ==
    {[NoMsg EXCEPT !.keys = ks, !.ts = MsgTimestamp,
                   !.bg = IF "bg" \in ks THEN StrOfLen(lb) ELSE NoMsg.bg,
                   !.delta = IF "delta" \in ks THEN StrOfLen(ld) ELSE NoMsg.delta] :
        ks \in {{"timestamp", "bg", "delta"}, {"timestamp", "bg"}, {"timestamp", "delta"}},
        lb \in 0..MaxStrLen, ld \in 0..MaxStrLen}

\* A threshold tuple as the revision's protocol header documents it: a
\* uint8 in mg/dL / 2 (test_mode.h:31-32, for main.c and part_000), a uint16
\* in mg/dL (part_001:30-31).
DocumentedWidth(r) == IF r = "compact" THEN 2 ELSE 1
DocumentedThreshold(r, mgdl, next) ==
    IF r = "compact" THEN Tuple16(mgdl) ELSE Tuple8(mgdl \div 2, next)

\* The two-point payload in full (accepted), cut to its header (rejected)
\* and cut one byte shorter than the header.
ThresholdPayloads(r) ==
    {[FieldGraph EXCEPT !.len = l] : l \in {FullLength(r, 2), HeaderSize(r), HeaderSize(r) - 1}}

\* Data messages with or without graph_data and each threshold key.  The
\* high line is sent for 180 mg/dL as documented, followed in the inbox by a
\* zero byte or by the next tuple's key, or for 200 mg/dL as a uint16.
ThresholdMessages(r) ==
    {[NoMsg EXCEPT !.keys = {"timestamp"} \cup ks, !.ts = MsgTimestamp,
                   !.graph = IF "graph" \in ks THEN g ELSE NoMsg.graph,
                   !.high = IF "high" \in ks THEN h ELSE NoMsg.high,
                   !.low = IF "low" \in ks THEN DocumentedThreshold(r, 72, 0)
                           ELSE NoMsg.low] :
        ks \in SUBSET {"graph", "high", "low"},
        g \in ThresholdPayloads(r),
        h \in {DocumentedThreshold(r, 180, 0),
               DocumentedThreshold(r, 180, KEY_GRAPH_LOW_LINE),
               Tuple16(200)}}

\* Recent series of up to MaxRenderCount points, encoded in full.
RenderPayloads(r) ==
    {[ref |-> RefOfSeed(sd), n |-> c, pts |-> c, len |-> FullLength(r, c), seed |-> sd] :
        c \in 0..MaxRenderCount, sd \in {2, 3, 4}}

RenderMessages(r) ==
    {[NoMsg EXCEPT !.keys = {"timestamp", "graph"}, !.ts = MsgTimestamp, !.graph = g] :
        g \in RenderPayloads(r)}

\* Data messages with every arrow byte, next to a bg string or alone.
ArrowMessages ==
    {[NoMsg EXCEPT !.keys = {"timestamp", "arrow"} \cup ks, !.ts = MsgTimestamp,
                   !.bg = BG_SHORT, !.arrow = a] :
        ks \in SUBSET {"bg"}, a \in 0..(U8 - 1)}

\* A message with the phone-battery tuple appended: KEY_PHONE_BATTERY is the
\* key the decoder has no dict_find for.  The tuples lie one behind the other
\* in the dictionary, so the byte behind the value of the last threshold
\* tuple is now the low byte of the battery tuple's key.
KEY_PHONE_BATTERY == 17
WithBattery(m) ==
    [m EXCEPT !.keys = @ \cup {"battery"},
              !.low = IF "low" \in m.keys THEN [@ EXCEPT !.next = KEY_PHONE_BATTERY] ELSE @,
              !.high = IF "high" \in m.keys /\ "low" \notin m.keys
                       THEN [@ EXCEPT !.next = KEY_PHONE_BATTERY] ELSE @]

\* The same message as its sender would have built it without the battery
\* tuple: the dictionary ends where that tuple began, and the inbox buffer
\* behind it holds zero.
WithoutBattery(m) ==
    [m EXCEPT !.keys = @ \ {"battery"},
              !.low = IF "battery" \in m.keys /\ @.next = KEY_PHONE_BATTERY
                      THEN [@ EXCEPT !.next = 0] ELSE @,
              !.high = IF "battery" \in m.keys /\ @.next = KEY_PHONE_BATTERY
                       THEN [@ EXCEPT !.next = 0] ELSE @]

\* Recent series in full, and one payload cut one byte short of its points.
LoopMessages(r) ==
    RenderMessages(r)
    \cup {m \in GraphMessages(r) :
             /\ "graph" \in m.keys
             /\ m.graph.n = MaxSmallCount
             /\ m.graph.len = FullLength(r, MaxSmallCount) - 1}

UnknownKeyMessages(r) ==
    ThresholdMessages(r) \cup {WithBattery(m) : m \in ThresholdMessages(r)}

\* Data messages whose reading is of every age that matters to the time-ago
\* text: whole minutes and 59 seconds more, below and from an hour, below
\* and from 100 hours.
AgeMinutes == {0, 1, 59, 60, 61, 119, 120, 5999, 6000, 6599}
TimeAgoMessages ==
    {[NoMsg EXCEPT !.keys = {"timestamp"}, !.ts = U32Of(Now0 - 60 * a - sec)] :
        a \in AgeMinutes, sec \in {0, 59}}

\* Every payload the specifications deliver, and what the decoder makes of
\* each (DecodeGraph, evaluated once per payload).
AllPayloads(r) ==
    GraphPayloads(r) \cup ThresholdPayloads(r) \cup RenderPayloads(r) \cup {NoGraph}

Decoded == [r \in Revisions |-> [g \in AllPayloads(r) |-> DecodeGraph(r, g)]]

GraphMessagesOf == [r \in Revisions |-> GraphMessages(r)]

FieldMessagesOf == [r \in Revisions |-> FieldMessages(r)]

ThresholdMessagesOf == [r \in Revisions |-> ThresholdMessages(r)]

RenderMessagesOf == [r \in Revisions |-> RenderMessages(r)]

UnknownKeyMessagesOf == [r \in Revisions |-> UnknownKeyMessages(r)]

LoopMessagesOf == [r \in Revisions |-> LoopMessages(r)]


\* ------------------------------------------------------------------------
\* main(): init_test_mode_data(); init();
\* ------------------------------------------------------------------------

\* (base_bg + variation - 24) with variation = (i % 12) < 6 ? (i % 12) * 8
\* : (12 - (i % 12)) * 8
TestBgValue(i) == 150 + (IF (i % 12) < 6 THEN (i % 12) * 8 ELSE (12 - (i % 12)) * 8) - 24

\* send_capability_announcement(): begin and send are what
\* app_message_outbox_begin and app_message_outbox_send return.  A failed
\* begin returns before any dict_write and before the send.
OutboxResults == {"APP_MSG_OK", "APP_MSG_BUSY"}
send_capability_announcement_Unchecked(begin, send) ==
    [begin |-> begin,
     fields |-> {"KEY_PROTOCOL_VERSION", "KEY_CAPABILITIES", "KEY_GRAPH_HOURS"},
     send |-> send]
send_capability_announcement(begin, send) ==
    IF begin # "APP_MSG_OK"
    THEN [begin |-> begin, fields |-> {}, send |-> "not_called"]
    ELSE [begin |-> begin,
          fields |-> {"KEY_PROTOCOL_VERSION", "KEY_CAPABILITIES", "KEY_GRAPH_HOURS"},
          send |-> send]

\* update_displayed_xdrip_data() on the heap: the bitmap s_arrow_bitmap points
\* to, if any, is destroyed, and one is created if the arrow index asks for
\* one.  Destroying a bitmap that is not allocated is a double destroy.
HeapAfterDestroy_Omitted(h, bitmap) == h
HeapAfterDestroy(h, bitmap) ==
    IF bitmap = 0 THEN h
    ELSE IF h.live = 0 THEN [h EXCEPT !.destroyed_twice = TRUE]
    ELSE [h EXCEPT !.live = @ - 1]
HeapAfterCreate(h, bitmap) == IF bitmap = 0 THEN h ELSE [h EXCEPT !.live = @ + 1]

\* The calls of init() and of deinit() on the services and the window, in the
\* order of the code.
InitOrder ==
    <<"app_message_register_inbox_received", "tick_timer_service_subscribe",
      "connection_service_subscribe", "window_load">>
DeinitOrder_WindowFirst ==
    <<"window_unload", "app_message_deregister_callbacks",
      "tick_timer_service_unsubscribe", "connection_service_unsubscribe">>
DeinitOrder ==
    <<"app_message_deregister_callbacks", "tick_timer_service_unsubscribe",
      "connection_service_unsubscribe", "window_unload">>

\* init_test_mode_data() under TEST_MODE, then init(): the callbacks are
\* registered, window_stack_push loads the window (window_load creates the
\* layers and runs the three update_displayed_* functions), and the
\* capabilities are announced, begin and send being the outbox's results.
main_init_outbox(begin, send) ==
    /\ pc = "start"
    /\ pc' = "running"
    /\ IF TEST_MODE(rev)
       THEN /\ s_bg_timestamp' = U32Sub(U32Of(now), U32Of(TEST_MINUTES_AGO * 60))
            /\ s_bg_string' = safe_strncpy(s_bg_string, TEST_BG_STRING, BG_STRING_SIZE)
            /\ s_arrow_index' = TEST_ARROW_INDEX
            /\ s_delta_string' =
                   safe_strncpy(s_delta_string, TEST_DELTA_STRING, DELTA_STRING_SIZE)
            /\ s_graph_ref_timestamp' =
                   U32Sub(U32Of(now), U32Of(TEST_GRAPH_HOURS * 60 * 60))
            /\ s_graph_count' = TEST_GRAPH_COUNT
            /\ s_graph_offsets' =
                   StoreFirst(s_graph_offsets, TEST_GRAPH_COUNT,
                              [i \in 0..(TEST_GRAPH_COUNT - 1) |-> (i * 5) % U8])
            /\ s_graph_bg_values' =
                   StoreFirst(s_graph_bg_values, TEST_GRAPH_COUNT,
                              [i \in 0..(TEST_GRAPH_COUNT - 1) |-> TestBgValue(i)])
            /\ pts_written' = TEST_GRAPH_COUNT
       ELSE UNCHANGED <<readingVars, seriesVars, pts_written>>
    /\ window_loaded' = TRUE
    /\ bg_layer_text' = TRUE
    /\ delta_layer_text' = TRUE
    /\ s_arrow_bitmap' = ArrowShown(rev, s_arrow_index')
    /\ arrow_layer_bitmap' = ArrowShown(rev, s_arrow_index')
    /\ s_time_ago_buffer' = TimeAgoBufferAfter(s_time_ago_buffer, now, s_bg_timestamp')
    /\ time_ago_layer_text' = TimeAgoLayerAfter(time_ago_layer_text, s_bg_timestamp')
    /\ graph_dirty' = TRUE
    /\ announcements' = announcements + 1
    /\ outbox' = send_capability_announcement(begin, send)
    /\ lifecycle' = lifecycle \o InitOrder
    /\ heap' = HeapAfterCreate(HeapAfterDestroy(heap, s_arrow_bitmap), s_arrow_bitmap')
    /\ UNCHANGED <<rev, now, thresholdVars, last_msg, graph_outcome, data_idx, arr_idx,
                   str_writes, reading_src, data_seen, redelivered, graph_drawn,
                   connects>>

\* The same with an outbox that accepts the announcement.
main_init == main_init_outbox("APP_MSG_OK", "APP_MSG_OK")

\* ------------------------------------------------------------------------
\* new_xdrip_data_callback
\* ------------------------------------------------------------------------

\* if (s_graph_layer) layer_mark_dirty(s_graph_layer); in the branch of an
\* accepted payload; in part_000 update_displayed_xdrip_data marks the layer
\* as well, on every data message.
GraphLayerMarked_Unmarked(r, layer, accepted) == FALSE
GraphLayerMarked(r, layer, accepted) == layer /\ (accepted \/ r = "extended_half")

\* A callback is on its service from the call that registers it to the call
\* that takes it off.
IsRegistered(on, off) ==
    /\ \E k \in DOMAIN lifecycle : lifecycle[k] = on
    /\ \A k \in DOMAIN lifecycle : lifecycle[k] # off

\* dict_find(iter, KEY_...) returns a tuple: the message carries the key.
DictFind_Always(m, k) == TRUE
DictFind(m, k) == k \in m.keys

\* s_bg_timestamp = timestamp_tuple->value->uint32;
StoredTimestamp_Clock(m) == U32Of(now)
StoredTimestamp(m) == m.ts

\* m is the inbound dictionary.
new_xdrip_data_callback(m) ==
    LET has(k) == DictFind(m, k)
        d == Decoded[rev][m.graph]
        header == has("graph") /\ d.header
        accepted == has("graph") /\ d.accepted
        count == d.count
    IN
    /\ pc = "running"
    /\ IsRegistered("app_message_register_inbox_received", "app_message_deregister_callbacks")
    /\ last_msg' = m
    /\ data_seen' = (data_seen \/ IsDataMessage(m))
    /\ redelivered' = (graph_outcome # "none" /\ last_msg = m)
    /\ IF IsDataMessage(m)
       THEN /\ s_bg_timestamp' = StoredTimestamp(m)
            /\ s_bg_string' =
                   IF has("bg") THEN safe_strncpy(s_bg_string, m.bg, BG_STRING_SIZE)
                   ELSE s_bg_string
            /\ s_arrow_index' =
                   IF has("arrow") /\ rev # "extended_half" THEN m.arrow % U8
                   ELSE s_arrow_index
            /\ s_delta_string' =
                   IF has("delta") THEN safe_strncpy(s_delta_string, m.delta, DELTA_STRING_SIZE)
                   ELSE s_delta_string
            \* the header is stored before the length is verified
            /\ s_graph_ref_timestamp' =
                   IF header THEN d.ref ELSE s_graph_ref_timestamp
            /\ s_graph_count' = IF header THEN count ELSE s_graph_count
            /\ s_graph_offsets' =
                   IF accepted
                   THEN StoreFirst(s_graph_offsets, count, d.offsets)
                   ELSE s_graph_offsets
            /\ s_graph_bg_values' =
                   IF accepted
                   THEN StoreFirst(s_graph_bg_values, count, d.values)
                   ELSE s_graph_bg_values
            /\ s_graph_high_line' =
                   IF has("high") THEN ThresholdValue(rev, m.high)
                   ELSE s_graph_high_line
            /\ s_graph_low_line' =
                   IF has("low") THEN ThresholdValue(rev, m.low)
                   ELSE s_graph_low_line
            /\ graph_dirty' =
                   IF GraphLayerMarked(rev, window_loaded, accepted) THEN TRUE
                   ELSE graph_dirty
            \* update_displayed_xdrip_data(); update_displayed_time_ago();
            /\ bg_layer_text' = TRUE
            /\ delta_layer_text' = TRUE
            /\ s_arrow_bitmap' = ArrowShown(rev, s_arrow_index')
            /\ arrow_layer_bitmap' = ArrowShown(rev, s_arrow_index')
            /\ heap' = HeapAfterCreate(HeapAfterDestroy(heap, s_arrow_bitmap), s_arrow_bitmap')
            /\ s_time_ago_buffer' = TimeAgoBufferAfter(s_time_ago_buffer, now, s_bg_timestamp')
            /\ time_ago_layer_text' = TimeAgoLayerAfter(time_ago_layer_text, s_bg_timestamp')
            /\ graph_outcome' =
                   IF ~has("graph") THEN "absent"
                   ELSE IF ~header THEN "short_header"
                   ELSE IF ~accepted THEN "rejected"
                   ELSE "accepted"
            /\ str_writes' =
                   [bg |-> IF has("bg")
                           THEN IndexRange(safe_strncpy_Writes(BG_STRING_SIZE))
                           ELSE NoIndices,
                    delta |-> IF has("delta")
                              THEN IndexRange(safe_strncpy_Writes(DELTA_STRING_SIZE))
                              ELSE NoIndices]
            /\ reading_src' =
                   {"timestamp"}
                   \cup (m.keys \cap (IF rev = "extended_half" THEN {"bg", "delta"}
                                      ELSE {"bg", "delta", "arrow"}))
            /\ data_idx' = IF has("graph") THEN d.data_idx ELSE NoIndices
            /\ arr_idx' = IF has("graph") THEN d.arr_idx ELSE NoIndices
            /\ pts_written' =
                   IF ~header THEN pts_written
                   ELSE IF accepted THEN Min(count, MAX_GRAPH_POINTS(rev))
                   ELSE 0
       ELSE /\ graph_outcome' = "ignored"
            /\ data_idx' = NoIndices
            /\ arr_idx' = NoIndices
            /\ str_writes' = [bg |-> NoIndices, delta |-> NoIndices]
            /\ reading_src' = {}
            /\ UNCHANGED <<decoderVars, displayVars, pts_written, heap>>
    /\ UNCHANGED <<rev, pc, now, window_loaded, platformVars>>

\* ------------------------------------------------------------------------
\* minute_tick_callback
\* ------------------------------------------------------------------------

\* The tick service fires when the minute changes:
\* update_displayed_time_and_date(); update_displayed_time_ago();
minute_tick_callback ==
    /\ pc = "running"
    /\ IsRegistered("tick_timer_service_subscribe", "tick_timer_service_unsubscribe")
    /\ now < Now0 + 60 * MaxTicks
    /\ now' = now + 60
    /\ s_time_ago_buffer' = TimeAgoBufferAfter(s_time_ago_buffer, now', s_bg_timestamp)
    /\ time_ago_layer_text' = TimeAgoLayerAfter(time_ago_layer_text, s_bg_timestamp)
    /\ UNCHANGED <<rev, pc, decoderVars, window_loaded, bg_layer_text, delta_layer_text,
                   s_arrow_bitmap, arrow_layer_bitmap, graph_dirty, ghostVars, platformVars,
                   heap>>

\* ------------------------------------------------------------------------
\* graph_layer_update_proc
\* ------------------------------------------------------------------------

\* The graph layer's bounds (layer_create(GRect(0, 35, PBL_DISPLAY_WIDTH, 100)))
\* on a 144 pixel wide display, and the renderer's parameters.
PBL_DISPLAY_WIDTH == 144
LayerHeight == 100
GRAPH_HOURS(r) == IF r = "extended_half" THEN 2 ELSE 3
GraphMinutes(r) == GRAPH_HOURS(r) * 60
\* bg_max / graph_max, in the unit of the stored values
GraphMax(r) == IF r = "extended_half" THEN 144 ELSE 288
\* the width the points are spread over: part_000 keeps a third for the dots
GraphWidth(r) == IF r = "extended_half" THEN (PBL_DISPLAY_WIDTH * 2) \div 3 ELSE PBL_DISPLAY_WIDTH
NUM_DOTS == 3

\* height - ((v - bg_min) * height) / (bg_max - bg_min), bg_min being 0
ScaleY(r, v) == LayerHeight - (v * LayerHeight) \div GraphMax(r)

\* (now - (s_graph_ref_timestamp + s_graph_offsets[i] * 60)) / 60
PointMinutesAgo(t, ref, off) == U32Div60(U32Sub(U32Of(t), U32Add(ref, U32Of(off * 60))))

\* One pass of the loop body for point i at time t: whether the point is
\* drawn, and where.
PointDrawn(r, t, ref, off, bg) ==
    IF r = "compact"
    THEN [vis |-> TRUE,
          x |-> (off * PBL_DISPLAY_WIDTH) \div (3 * 60),
          y |-> ScaleY(r, IF bg > GraphMax(r) THEN GraphMax(r) ELSE bg)]
    ELSE LET ma == PointMinutesAgo(t, ref, off)
             x == IF ma > GraphMinutes(r) THEN 0
                  ELSE GraphWidth(r) - (ma * GraphWidth(r)) \div GraphMinutes(r)
         IN [vis |-> /\ ma <= GraphMinutes(r)
                     /\ r = "extended" => (x >= 0 /\ x < PBL_DISPLAY_WIDTH),
             x |-> x, y |-> ScaleY(r, bg)]

\* The points the loop draws, in the order of the arrays.
PointsDrawn(r, t, ref, count, offsets, values) ==
    LET all == [k \in 1..count |->
                   PointDrawn(r, t, ref, At(offsets, k - 1), At(values, k - 1))]
        seen == SelectSeq(all, LAMBDA q : q.vis)
    IN [k \in 1..Len(seen) |-> <<seen[k].x, seen[k].y>>]

\* part_000 past the loop: dx and dy between the last two drawn points.
\* The dots are derived when visible_count >= 2 and (dx != 0 || dy != 0).
TrendSlope(pts) ==
    LET n == Len(pts)
    IN [dx |-> pts[n][1] - pts[n - 1][1], dy |-> pts[n][2] - pts[n - 1][2]]
DotsDerived(r, pts) ==
    /\ r = "extended_half"
    /\ Len(pts) >= 2
    /\ TrendSlope(pts).dx # 0 \/ TrendSlope(pts).dy # 0

\* dot_dx = PBL_DISPLAY_WIDTH / (8 * num_dots); the dots step from the last
\* point by (dot_dx, dot_dy).
DotDx == PBL_DISPLAY_WIDTH \div (8 * NUM_DOTS)
TrendDots(pts, dot_dy) ==
    [k \in 1..NUM_DOTS |-> <<pts[Len(pts)][1] + k * DotDx, pts[Len(pts)][2] + k * dot_dy>>]

\* What an integer division by zero yields where it does not trap (the
\* Cortex-M SDIV without DIV_0_TRP).
DivZeroQuotients == {0}

\* The platform redraws the layer: a run of graph_layer_update_proc at time
\* now.  dot_dy = dot_dx * dy / dx divides by dx; with dx = 0 the behaviour is
\* undefined: the division traps and the app is terminated, or it yields a
\* quotient and the dots are drawn with it.
graph_layer_update_proc ==
    /\ pc = "running"
    /\ window_loaded
    /\ graph_dirty' = FALSE
    /\ IF s_graph_count = 0
       THEN /\ graph_drawn' = [NoDrawing EXCEPT !.ran = TRUE]
            /\ pc' = pc
       ELSE LET pts == PointsDrawn(rev, now, s_graph_ref_timestamp, s_graph_count,
                                   s_graph_offsets, s_graph_bg_values)
                base == [ran |-> TRUE, content |-> TRUE,
                         high_y |-> ScaleY(rev, s_graph_high_line),
                         low_y |-> ScaleY(rev, s_graph_low_line),
                         points |-> pts, dots |-> <<>>, div0 |-> FALSE]
            IN IF ~DotsDerived(rev, pts)
               THEN graph_drawn' = base /\ pc' = pc
               ELSE LET dx == TrendSlope(pts).dx
                        dy == TrendSlope(pts).dy
                    IN IF dx # 0
                       THEN /\ graph_drawn' =
                                   [base EXCEPT !.dots = TrendDots(pts, CDiv(DotDx * dy, dx))]
                            /\ pc' = pc
                       ELSE \/ /\ graph_drawn' = [base EXCEPT !.div0 = TRUE]
                               /\ pc' = "faulted"
                            \/ /\ \E q \in DivZeroQuotients :
                                      graph_drawn' =
                                          [base EXCEPT !.div0 = TRUE,
                                                       !.dots = TrendDots(pts, q)]
                               /\ pc' = pc
    /\ UNCHANGED <<rev, now, decoderVars, s_time_ago_buffer, window_loaded, bg_layer_text,
                   delta_layer_text, time_ago_layer_text, s_arrow_bitmap,
                   arrow_layer_bitmap, ghostVars, outboxVars, lifecycle, heap>>

\* ------------------------------------------------------------------------
\* bluetooth_callback
\* ------------------------------------------------------------------------

\* if (connected)
AnnouncesOn_Always(connected) == TRUE
AnnouncesOn(connected) == connected

\* if (connected) send_capability_announcement(); begin and send are the
\* outbox's results
bluetooth_callback(connected, begin, send) ==
    /\ pc = "running"
    /\ IsRegistered("connection_service_subscribe", "connection_service_unsubscribe")
    /\ announcements < MaxAnnouncements
    /\ connects' = IF connected THEN connects + 1 ELSE connects
    /\ IF AnnouncesOn(connected)
       THEN /\ announcements' = announcements + 1
            /\ outbox' = send_capability_announcement(begin, send)
       ELSE UNCHANGED <<announcements, outbox>>
    /\ UNCHANGED <<rev, pc, now, decoderVars, displayVars, ghostVars, graph_drawn,
                   lifecycle, heap>>

\* ------------------------------------------------------------------------
\* deinit
\* ------------------------------------------------------------------------

\* app_event_loop() returns; deinit() takes the callbacks off the services
\* and destroys the window, whose unload handler destroys the layers and the
\* arrow bitmap (s_arrow_bitmap keeps pointing to it).
deinit ==
    /\ pc = "running"
    /\ pc' = "exited"
    /\ lifecycle' = lifecycle \o DeinitOrder
    /\ window_loaded' = FALSE
    /\ bg_layer_text' = FALSE
    /\ delta_layer_text' = FALSE
    /\ time_ago_layer_text' = FALSE
    /\ arrow_layer_bitmap' = 0
    /\ graph_dirty' = FALSE
    /\ graph_drawn' = NoDrawing
    /\ heap' = HeapAfterDestroy(heap, s_arrow_bitmap)
    /\ UNCHANGED <<rev, now, decoderVars, s_time_ago_buffer, s_arrow_bitmap, ghostVars,
                   outboxVars>>

\* ------------------------------------------------------------------------
\* Specifications
\* ------------------------------------------------------------------------

\* The decoder under graph-bearing data messages.
NextGraph ==
    \/ main_init
    \/ \E m \in GraphMessagesOf[rev] : new_xdrip_data_callback(m)

SpecGraph == Init /\ [][NextGraph]_vars

\* The decoder under messages of every combination of keys.
NextFields ==
    \/ main_init
    \/ \E m \in FieldMessagesOf[rev] : new_xdrip_data_callback(m)

SpecFields == Init /\ [][NextFields]_vars

\* The whole program: a few of these messages, one of them with timestamp 0,
\* the minute tick, connection events and redraws.
ClockMessagesOf ==
    [r \in Revisions |->
        {MessageOf(r, ks, v) : ks \in {{"timestamp"}, KeyNames, OptionalKeys}, v \in {1, 2}}
        \cup {[MessageOf(r, {"timestamp"}, 1) EXCEPT !.ts = U32Zero]}]

Next ==
    \/ \E begin, send \in OutboxResults : main_init_outbox(begin, send)
    \/ \E m \in ClockMessagesOf[rev] : new_xdrip_data_callback(m)
    \/ minute_tick_callback
    \/ \E connected \in BOOLEAN, begin, send \in OutboxResults :
           bluetooth_callback(connected, begin, send)
    \/ graph_layer_update_proc
    \/ deinit

Spec == Init /\ [][Next]_vars

\* The decoder under strings of every length.
NextStrings ==
    \/ main_init
    \/ \E m \in StringMessages : new_xdrip_data_callback(m)

SpecStrings == Init /\ [][NextStrings]_vars

\* The decoder and the renderer under recent series, as the clock advances.
NextRender ==
    \/ main_init
    \/ \E m \in RenderMessagesOf[rev] : new_xdrip_data_callback(m)
    \/ minute_tick_callback
    \/ graph_layer_update_proc

SpecRender == Init /\ [][NextRender]_vars

\* The decoder under messages it accepts, rejects or ignores, each of which
\* may come again: the messages of the whole program, and the graph payloads
\* of MaxSmallCount points in full and cut short.
AnyMessagesOf ==
    [r \in Revisions |->
        ClockMessagesOf[r]
        \cup {m \in GraphMessages(r) : "graph" \in m.keys /\ m.graph.n = MaxSmallCount}]

NextAny ==
    \/ main_init
    \/ \E m \in AnyMessagesOf[rev] : new_xdrip_data_callback(m)

SpecAny == Init /\ [][NextAny]_vars

\* The event loop: callbacks run to completion one at a time, and a layer
\* marked dirty is redrawn before the loop goes idle.
NextLoop ==
    \/ main_init
    \/ \E m \in LoopMessagesOf[rev] : new_xdrip_data_callback(m)
    \/ graph_layer_update_proc

SpecLoop ==
    Init /\ [][NextLoop]_vars /\ WF_vars(graph_dirty /\ graph_layer_update_proc)

\* The decoder under messages with and without a key it does not know.
NextUnknown ==
    \/ main_init
    \/ \E m \in UnknownKeyMessagesOf[rev] : new_xdrip_data_callback(m)

SpecUnknown == Init /\ [][NextUnknown]_vars

\* The time-ago display under readings of every age, as the clock advances.
NextTimeAgo ==
    \/ main_init
    \/ \E m \in TimeAgoMessages : new_xdrip_data_callback(m)
    \/ minute_tick_callback

SpecTimeAgo == Init /\ [][NextTimeAgo]_vars

\* The decoder and the display under every arrow byte.
NextArrow ==
    \/ main_init
    \/ \E m \in ArrowMessages : new_xdrip_data_callback(m)

SpecArrow == Init /\ [][NextArrow]_vars

\* The decoder under threshold keys next to every fate of graph_data.
NextThresholds ==
    \/ main_init
    \/ \E m \in ThresholdMessagesOf[rev] : new_xdrip_data_callback(m)

SpecThresholds == Init /\ [][NextThresholds]_vars

\* ------------------------------------------------------------------------
\* Claims about the graph payload (under SpecGraph)
\* ------------------------------------------------------------------------

\* The payload of the last callback, and whether its sender encoded in full
\* the n points its header declares.
LastGraph == last_msg.graph
GraphDelivered == {"timestamp", "graph"} \subseteq last_msg.keys
SenderEncodedInFull ==
    /\ GraphDelivered
    /\ LastGraph.pts = LastGraph.n
    /\ LastGraph.len = FullLength(rev, LastGraph.n)

\* The claim's condition of rejection, on the message the step delivers:
\* length below the header size, or below header size + clamped count x
\* per-point width.
RejectedByLength(g) ==
    \/ g.len < HeaderSize(rev)
    \/ g.len < HeaderSize(rev) + Min(g.n, MAX_GRAPH_POINTS(rev)) * (OffsetWidth(rev) + 1)

\* C1: whenever a graph_data payload is rejected (too short for the header,
\* or for the clamped count of points), the stored series (reference
\* timestamp, count, offsets, values) equals its value before the message.
C1_RejectedLeavesSeries ==
    [][(/\ graph_outcome' \in {"short_header", "rejected", "accepted"}
        /\ RejectedByLength(last_msg'.graph))
       => UNCHANGED seriesVars]_vars

\* C2: every index the callback uses into the payload is below the payload's
\* length, and every index it uses into s_graph_offsets / s_graph_bg_values
\* (the first-point and last-point reads included) is in
\* [0, MAX_GRAPH_POINTS).
C2_IndicesInBounds ==
    /\ data_idx.n > 0 => (0 <= data_idx.lo /\ data_idx.hi < LastGraph.len)
    /\ arr_idx.n > 0 => (0 <= arr_idx.lo /\ arr_idx.hi < MAX_GRAPH_POINTS(rev))

\* C3: s_graph_count <= MAX_GRAPH_POINTS in every reachable state, and a
\* declared count above the capacity is clamped, never a reason to reject: a
\* payload long enough for a capacity's worth of points is accepted.
C3_CountWithinCapacity ==
    /\ s_graph_count <= MAX_GRAPH_POINTS(rev)
    /\ (/\ GraphDelivered
        /\ LastGraph.n > MAX_GRAPH_POINTS(rev)
        /\ LastGraph.len >= FullLength(rev, MAX_GRAPH_POINTS(rev)))
       => (graph_outcome = "accepted" /\ s_graph_count = MAX_GRAPH_POINTS(rev))

C3_Witness ==
    /\ graph_outcome = "accepted"
    /\ LastGraph.n = MaxCountField(rev)
    /\ s_graph_count = MAX_GRAPH_POINTS(rev)

\* C4: of an accepted payload that encodes N > capacity points (header, N
\* offsets, N value bytes) the decoder keeps the first capacity points:
\* stored offset i is the sender's offset i and stored value i the sender's
\* value byte i (x2 where the revision stores full resolution).
C4_KeepsFirstPoints ==
    (/\ SenderEncodedInFull
     /\ LastGraph.n > MAX_GRAPH_POINTS(rev)
     /\ graph_outcome = "accepted")
    => \A i \in GraphIndices(rev) :
          /\ At(s_graph_offsets, i) = SenderOffset(rev, LastGraph, i)
          /\ At(s_graph_bg_values, i) = SenderValue(LastGraph, i) * ValueScale(rev)

\* The scenario's payload: [ref_ts=1000 LE32][count=2][offsets 0,5][values
\* 50,60], compact revision.
ScenarioGraph == [ref |-> U32Of(1000), n |-> 2, pts |-> 2, len |-> 9, seed |-> 0]
ScenarioBytes == <<232, 3, 0, 0, 2, 0, 5, 50, 60>>

\* C5: round trip.  Decoding [ref_ts LE32][N][N offsets][N value bytes] with
\* N <= capacity stores reference_timestamp = ref_ts, count = N, the encoded
\* offsets and twice the value bytes (in mg/dL; the half-resolution revision
\* keeps the byte, which stands for twice its value); the scenario's payload
\* decodes to (0,100),(5,120).
C5_RoundTrip ==
    /\ (/\ SenderEncodedInFull
        /\ LastGraph.n <= MAX_GRAPH_POINTS(rev))
       => /\ graph_outcome = "accepted"
          /\ s_graph_ref_timestamp = LastGraph.ref
          /\ s_graph_count = LastGraph.n
          /\ \A i \in 0..(LastGraph.n - 1) :
                /\ At(s_graph_offsets, i) = SenderOffset(rev, LastGraph, i)
                /\ At(s_graph_bg_values, i) * (2 \div ValueScale(rev))
                       = 2 * SenderValue(LastGraph, i)
    /\ (rev = "compact" /\ GraphDelivered /\ LastGraph = ScenarioGraph)
       => /\ Payload(rev, LastGraph) = [k \in 0..8 |-> ScenarioBytes[k + 1]]
          /\ s_graph_ref_timestamp = U32Of(1000)
          /\ s_graph_count = 2
          /\ At(s_graph_offsets, 0) = 0 /\ At(s_graph_bg_values, 0) = 100
          /\ At(s_graph_offsets, 1) = 5 /\ At(s_graph_bg_values, 1) = 120

C5_Witness ==
    /\ SenderEncodedInFull
    /\ graph_outcome = "accepted"
    /\ s_graph_ref_timestamp = U32Max
    /\ s_graph_count = MAX_GRAPH_POINTS(rev)
    /\ At(s_graph_offsets, s_graph_count - 1) > 255 \/ rev = "compact"

\* C6: a payload of length L declaring count N is accepted (its arrays
\* decoded) if and only if L >= header size and L >= header size +
\* min(N, capacity) x (offset width + 1): the length check uses the clamped
\* count.
C6_AcceptedIff ==
    GraphDelivered
    => /\ (graph_outcome = "accepted") <=> ~RejectedByLength(LastGraph)
       /\ (graph_outcome = "accepted")
          => pts_written = Min(LastGraph.n, MAX_GRAPH_POINTS(rev))

\* accepted on the clamped count though shorter than the declared count needs
C6_Witness ==
    /\ GraphDelivered
    /\ graph_outcome = "accepted"
    /\ LastGraph.n > MAX_GRAPH_POINTS(rev)
    /\ LastGraph.len < FullLength(rev, LastGraph.n)

\* C7: of a payload shorter than the fixed header no byte is read, no graph
\* array element is read or written, and the stored series is unchanged.
C7_ShortHeaderNoAccess ==
    [][(/\ {"timestamp", "graph"} \subseteq last_msg'.keys
        /\ last_msg'.graph.len < HeaderSize(rev))
       => /\ data_idx'.n = 0
          /\ arr_idx'.n = 0
          /\ UNCHANGED seriesVars]_vars

\* a short payload met a stored series of several points
C7_Witness ==
    /\ GraphDelivered
    /\ LastGraph.len = HeaderSize(rev) - 1
    /\ graph_outcome = "short_header"
    /\ s_graph_count > 1

\* C8: the visible series is the product of one single message (or the
\* initial empty one): the reference timestamp, the count and every point
\* below the count were written by the same message.
C8_SeriesOfOneMessage ==
    \A i \in 0..(s_graph_count - 1) : i < pts_written

\* ------------------------------------------------------------------------
\* Claims about the fields of a message (under SpecFields)
\* ------------------------------------------------------------------------

\* C9: a message that lacks the timestamp key, whatever other keys it
\* carries, leaves the whole decoder state unchanged: the reading, the graph
\* series and both thresholds.
C9_NoTimestampNoChange ==
    [][(pc = "running" /\ "timestamp" \notin last_msg'.keys)
       => UNCHANGED decoderVars]_vars

\* such a message, with every other key, met a decoder that holds a reading
C9_Witness ==
    /\ last_msg.keys = OptionalKeys
    /\ graph_outcome = "ignored"
    /\ s_bg_timestamp = MsgTimestamp
    /\ s_graph_count = 0
    /\ s_graph_high_line = INIT_HIGH_LINE(rev)

\* The string a buffer of the given size can hold of str.
Truncated(str, size) == SubSeq(str, 1, Min(Len(str), size - 1))

\* C10: for a data message and each optional field among bg string, delta
\* string, arrow index, high and low threshold: if the key is absent the
\* stored value stays what it was; if it is present that stored value, and
\* only that one, becomes the field's value (the string as far as the buffer
\* holds it).
C10_FieldsMerged ==
    [][(pc = "running" /\ "timestamp" \in last_msg'.keys)
       => LET m == last_msg'
              has(k) == k \in m.keys
          IN /\ IF has("bg")
                THEN CStr(s_bg_string') = Truncated(m.bg, BG_STRING_SIZE)
                ELSE s_bg_string' = s_bg_string
             /\ IF has("delta")
                THEN CStr(s_delta_string') = Truncated(m.delta, DELTA_STRING_SIZE)
                ELSE s_delta_string' = s_delta_string
             /\ IF has("arrow") /\ rev # "extended_half"
                THEN s_arrow_index' = m.arrow
                ELSE s_arrow_index' = s_arrow_index
             /\ IF has("high")
                THEN s_graph_high_line' = m.high.val
                ELSE s_graph_high_line' = s_graph_high_line
             /\ IF has("low")
                THEN s_graph_low_line' = m.low.val
                ELSE s_graph_low_line' = s_graph_low_line]_vars

\* ------------------------------------------------------------------------
\* Claims about the string fields (under SpecStrings)
\* ------------------------------------------------------------------------

\* A buffer holds a terminator within its capacity.
Terminated(buf) == \E k \in DOMAIN buf : buf[k] = 0

\* C11: a source string of any length copied by safe_strncpy into
\* s_bg_string (capacity 5) or s_delta_string (capacity 6) is stored as its
\* first min(len, capacity - 1) characters followed by a terminator, no byte
\* outside the destination is written, and in every reachable state both
\* buffers hold a terminator within their capacity.
C11_StringsTruncated ==
    /\ Terminated(s_bg_string) /\ Terminated(s_delta_string)
    /\ DOMAIN s_bg_string = 0..(BG_STRING_SIZE - 1)
    /\ DOMAIN s_delta_string = 0..(DELTA_STRING_SIZE - 1)
    /\ "bg" \in reading_src
       => /\ CStr(s_bg_string) = Truncated(last_msg.bg, BG_STRING_SIZE)
          /\ 0 <= str_writes.bg.lo /\ str_writes.bg.hi < BG_STRING_SIZE
    /\ "delta" \in reading_src
       => /\ CStr(s_delta_string) = Truncated(last_msg.delta, DELTA_STRING_SIZE)
          /\ 0 <= str_writes.delta.lo /\ str_writes.delta.hi < DELTA_STRING_SIZE

\* both strings longer than their buffers, cut to 4 and 5 characters
C11_Witness ==
    /\ {"bg", "delta"} \subseteq reading_src
    /\ Len(last_msg.bg) = MaxStrLen /\ Len(last_msg.delta) = MaxStrLen
    /\ Len(CStr(s_bg_string)) = BG_STRING_SIZE - 1
    /\ Len(CStr(s_delta_string)) = DELTA_STRING_SIZE - 1

\* ------------------------------------------------------------------------
\* Claims about the thresholds (under SpecThresholds)
\* ------------------------------------------------------------------------

\* The tuple's value is what the variable holds: a two-byte tuple as a
\* whole, of a one-byte tuple at least its byte.
HoldsTuple(stored, t) ==
    /\ stored % U8 = t.val % U8
    /\ t.len = 2 /\ rev # "extended_half" => stored = t.val

\* C12: in a data message a present high-line or low-line key is stored into
\* s_graph_high_line / s_graph_low_line whether the graph_data of the same
\* message is absent, rejected or accepted, and whether graph_data is
\* accepted does not depend on the threshold keys.
C12_ThresholdsApart ==
    "timestamp" \in last_msg.keys
    => /\ "high" \in last_msg.keys => HoldsTuple(s_graph_high_line, last_msg.high)
       /\ "low" \in last_msg.keys => HoldsTuple(s_graph_low_line, last_msg.low)
       /\ graph_outcome \in {"absent", "short_header", "rejected", "accepted"}
       /\ graph_outcome = "absent" <=> "graph" \notin last_msg.keys
       /\ "graph" \in last_msg.keys
          => (graph_outcome = "accepted" <=> ~RejectedByLength(LastGraph))

\* both thresholds stored by a message whose graph_data was rejected
C12_Witness ==
    /\ {"timestamp", "high", "low", "graph"} \subseteq last_msg.keys
    /\ graph_outcome = "rejected"
    /\ s_graph_high_line = 200
    /\ s_graph_low_line # INIT_LOW_LINE(rev)

\* ------------------------------------------------------------------------
\* Claims about the trend arrow (under SpecArrow)
\* ------------------------------------------------------------------------

\* C13: every byte 0..255 of the arrow key is stored as sent (9 is stored as
\* 9); a bitmap is created and shown exactly when 1 <= s_arrow_index <= 7,
\* it is the one of ARROWS[s_arrow_index], and no index outside 0..7 is ever
\* used on ARROWS.  part_000 has no arrow: it stores and shows nothing.
C13_ArrowRawAndGuarded ==
    /\ s_arrow_bitmap \in 0..(ARROWS_LEN - 1)
    /\ arrow_layer_bitmap = s_arrow_bitmap
    /\ rev # "extended_half"
       => /\ "arrow" \in reading_src => s_arrow_index = last_msg.arrow
          /\ s_arrow_bitmap # 0 <=> (1 <= s_arrow_index /\ s_arrow_index <= 7)
          /\ s_arrow_bitmap # 0 => s_arrow_bitmap = s_arrow_index
    /\ rev = "extended_half" => s_arrow_index = 0 /\ s_arrow_bitmap = 0

\* 9 arrived, is stored as 9 and shows no bitmap
C13_Witness ==
    /\ "arrow" \in reading_src
    /\ last_msg.arrow = 9
    /\ s_arrow_index = 9
    /\ arrow_layer_bitmap = 0

\* The mg/dL a threshold tuple was sent for: a uint8 carries mg/dL / 2, a
\* uint16 carries mg/dL.
SentForMgdl(t) == IF t.len = 1 THEN 2 * t.val ELSE t.val

\* A stored threshold is in the unit of the stored point values (wire byte x
\* ValueScale, the wire byte being mg/dL / 2) and stands for the mg/dL sent.
InValueUnit(stored, t) == 2 * stored = ValueScale(rev) * SentForMgdl(t)

\* C19: a threshold that arrives as the revision documents it (and with a
\* zero byte behind a one-byte tuple) is stored in the unit of the stored
\* point values: in main.c, where values are stored in mg/dL, a threshold
\* sent for T mg/dL is stored as T.
C19_ThresholdUnit ==
    "timestamp" \in last_msg.keys
    => /\ ("high" \in last_msg.keys /\ last_msg.high.len = DocumentedWidth(rev)
           /\ last_msg.high.next = 0)
          => InValueUnit(s_graph_high_line, last_msg.high)
       /\ ("low" \in last_msg.keys /\ last_msg.low.len = DocumentedWidth(rev)
           /\ last_msg.low.next = 0)
          => InValueUnit(s_graph_low_line, last_msg.low)

\* ------------------------------------------------------------------------
\* Claims about the renderer (under SpecRender)
\* ------------------------------------------------------------------------

\* C14: whatever series the decoder stored, graph_layer_update_proc runs to
\* completion without dividing by zero, the derivation of the trend dots
\* from the last two visible points included.
C14_NoDivisionByZero == ~graph_drawn.div0 /\ pc # "faulted"

\* ------------------------------------------------------------------------
\* Claims about the display (under Spec)
\* ------------------------------------------------------------------------

\* The time-ago layer shows a time-ago value: it was given the buffer, and
\* the buffer holds a text.
TimeAgoDisplayed == time_ago_layer_text /\ CStr(s_time_ago_buffer) # <<>>

\* C15: in every state in which s_bg_timestamp is 0, at the start or after a
\* data message with timestamp 0 that follows messages with other
\* timestamps, the time-ago layer shows no time-ago value.
C15_ZeroSuppressesTimeAgo == s_bg_timestamp = U32Zero => ~TimeAgoDisplayed

\* The "no data" sentinel of the reading and the empty series.
NoDataState ==
    /\ s_bg_timestamp = U32Zero
    /\ CStr(s_bg_string) = STR_DASHES
    /\ CStr(s_delta_string) = STR_EMPTY
    /\ s_arrow_index = 0
    /\ s_graph_count = 0

\* What the layers show of it: "---" for glucose once the window is loaded,
\* no delta, no arrow, no time-ago value, no graph content.
NoDataDisplay ==
    /\ bg_layer_text => CStr(s_bg_string) = STR_DASHES
    /\ delta_layer_text => CStr(s_delta_string) = STR_EMPTY
    /\ arrow_layer_bitmap = 0
    /\ ~TimeAgoDisplayed
    /\ ~graph_drawn.content

\* No data message has been received yet.
NoDataMessageYet == ~data_seen

\* C16: the process starts in the no-data state, and until the first data
\* message, across minute ticks, connection events, messages without a
\* timestamp and redraws, the state stays so and the display shows "---", no
\* delta, no arrow, no time-ago and no graph content.
C16_NoDataUntilFirstMessage ==
    NoDataMessageYet => /\ NoDataState
                        /\ NoDataDisplay
                        /\ pc = "running" => bg_layer_text

\* The decoder state after message m as a function of the state before it
\* and of m, with no other argument.
DecoderStateOf(m) ==
    LET has(k) == k \in m.keys
        d == Decoded[rev][m.graph]
        header == has("graph") /\ d.header
        accepted == has("graph") /\ d.accepted
    IN IF "timestamp" \notin m.keys THEN decoderVars
       ELSE <<  <<m.ts,
                  IF has("bg") THEN safe_strncpy(s_bg_string, m.bg, BG_STRING_SIZE)
                  ELSE s_bg_string,
                  IF has("delta")
                  THEN safe_strncpy(s_delta_string, m.delta, DELTA_STRING_SIZE)
                  ELSE s_delta_string,
                  IF has("arrow") /\ rev # "extended_half" THEN m.arrow ELSE s_arrow_index>>,
                <<IF header THEN d.ref ELSE s_graph_ref_timestamp,
                  IF header THEN d.count ELSE s_graph_count,
                  IF accepted THEN StoreFirst(s_graph_offsets, d.count, d.offsets)
                  ELSE s_graph_offsets,
                  IF accepted THEN StoreFirst(s_graph_bg_values, d.count, d.values)
                  ELSE s_graph_bg_values>>,
                <<IF has("high") THEN ThresholdValue(rev, m.high) ELSE s_graph_high_line,
                  IF has("low") THEN ThresholdValue(rev, m.low) ELSE s_graph_low_line>>  >>

\* C17: the decoder state new_xdrip_data_callback stores is a function of the
\* state before and of the message only, whatever the wall clock is at
\* delivery; the clock advancing changes no decoder state, and the callback
\* draws nothing: point ages belong to graph_layer_update_proc.
C17_DecoderIgnoresClock ==
    [][/\ \A m \in ClockMessagesOf[rev] :
              new_xdrip_data_callback(m)
              => decoderVars' = DecoderStateOf(m) /\ graph_drawn' = graph_drawn
       /\ now' # now => UNCHANGED decoderVars]_vars

\* a data message was delivered at a clock value later than the start's: the
\* time-ago text "3m" was composed a minute after the start, and the message
\* with timestamp 0 came after that
C17_Witness ==
    /\ rev = "extended"
    /\ now > Now0
    /\ "timestamp" \in last_msg.keys
    /\ s_bg_timestamp = U32Zero
    /\ CStr(s_time_ago_buffer) = <<51, 109>>

\* ------------------------------------------------------------------------
\* Claims about redrawing (under SpecRender)
\* ------------------------------------------------------------------------

\* C18: a callback that accepts a graph payload leaves the graph layer marked
\* dirty (the layer existing), and draws nothing itself: what the layer shows
\* changes only in a step of graph_layer_update_proc, which is no step of the
\* callback.
C18_MarkedNotDrawn ==
    [][/\ \A m \in RenderMessagesOf[rev] :
              new_xdrip_data_callback(m)
              => /\ graph_outcome' = "accepted" /\ window_loaded => graph_dirty'
                 /\ graph_drawn' = graph_drawn
       /\ graph_drawn' # graph_drawn
          => graph_layer_update_proc /\ UNCHANGED <<decoderVars, last_msg>>]_vars

\* a payload was accepted after a redraw had cleared the mark: the layer is
\* marked again and still shows the drawing of the series before
C18_Witness ==
    /\ graph_outcome = "accepted"
    /\ s_graph_count > 0
    /\ graph_drawn.ran /\ ~graph_drawn.content
    /\ graph_dirty

\* ------------------------------------------------------------------------
\* Claims about the reading as a whole (under Spec)
\* ------------------------------------------------------------------------

\* The fields of the reading the revision stores.
ReadingFields ==
    IF rev = "extended_half" THEN {"timestamp", "bg", "delta"}
    ELSE {"timestamp", "bg", "delta", "arrow"}

\* C20 as claimed: after a data message the timestamp, the bg string, the
\* delta string and the arrow index all come from that message.
C20_ReadingWholesale ==
    "timestamp" \in last_msg.keys => reading_src = ReadingFields

\* C20 as amended: a data message replaces the timestamp, and the bg string,
\* the delta string and the arrow index each exactly when it carries the
\* field's key; a field whose key is absent keeps the value an earlier
\* message (or the start) gave it.
C20_ReadingMergedPerKey ==
    [][\A m \in ClockMessagesOf[rev] :
           (new_xdrip_data_callback(m) /\ "timestamp" \in m.keys)
           => /\ s_bg_timestamp' = m.ts
              /\ IF "bg" \in m.keys
                 THEN CStr(s_bg_string') = Truncated(m.bg, BG_STRING_SIZE)
                 ELSE s_bg_string' = s_bg_string
              /\ IF "delta" \in m.keys
                 THEN CStr(s_delta_string') = Truncated(m.delta, DELTA_STRING_SIZE)
                 ELSE s_delta_string' = s_delta_string
              /\ IF "arrow" \in m.keys /\ rev # "extended_half"
                 THEN s_arrow_index' = m.arrow
                 ELSE s_arrow_index' = s_arrow_index]_vars

\* the timestamp of the last message next to the bg string of an earlier one
C20_Witness ==
    /\ last_msg.keys = {"timestamp"}
    /\ last_msg.ts = U32Zero
    /\ s_bg_timestamp = U32Zero
    /\ CStr(s_bg_string) = BG_SHORT

\* ------------------------------------------------------------------------
\* Claims about unknown keys (under SpecUnknown)
\* ------------------------------------------------------------------------

\* C21: the decoder state after a message is the state after the same
\* message without the keys the decoder does not know (the phone-battery
\* key 17).
C21_UnknownKeysIgnored ==
    [][\A m \in UnknownKeyMessagesOf[rev] :
           new_xdrip_data_callback(m)
           => decoderVars' = DecoderStateOf(WithoutBattery(m))]_vars

\* ------------------------------------------------------------------------
\* Claims about the capability announcement (under Spec)
\* ------------------------------------------------------------------------

\* C22: send_capability_announcement is called once in init and once in each
\* connection callback with connected = true; a callback with connected =
\* false, a message, a minute tick, a redraw call it not at all and leave the
\* outbox alone.
C22_AnnouncedOncePerConnect ==
    [][/\ announcements' - announcements
              = (IF pc = "start" /\ pc' # "start" THEN 1 ELSE 0) + (connects' - connects)
       /\ announcements' = announcements => outbox' = outbox]_vars

\* one announcement of init and one of a connection, with a data message, a
\* minute tick and a redraw gone by
C22_Witness ==
    /\ announcements = 2
    /\ connects = 1
    /\ data_seen
    /\ now > Now0
    /\ graph_drawn.ran

\* ------------------------------------------------------------------------
\* Claims about the window of the graph (under SpecRender)
\* ------------------------------------------------------------------------

\* The stored points whose age in minutes at the time of drawing is within
\* 0..GRAPH_HOURS x 60 (a point dated after now has an age near 2^32 / 60).
PointsInWindow ==
    {i \in 0..(s_graph_count - 1) :
        PointMinutesAgo(now, s_graph_ref_timestamp, At(s_graph_offsets, i))
            <= GraphMinutes(rev)}

\* C23: a run of graph_layer_update_proc of main.c draws a stored point if
\* and only if its age is within 0..GRAPH_HOURS x 60 minutes, the point of
\* age 0 (at the right edge) included.
C23_DrawnIffInWindow ==
    [][(rev = "extended" /\ s_graph_count > 0 /\ graph_layer_update_proc)
       => Len(graph_drawn'.points) = Cardinality(PointsInWindow)]_vars

\* ------------------------------------------------------------------------
\* Claims about the time-ago text (under SpecTimeAgo)
\* ------------------------------------------------------------------------

\* floor((now - s_bg_timestamp) / 60), the timestamp not being after now
ReadingAgeMinutes == (now - (s_bg_timestamp[1] * U16 + s_bg_timestamp[2])) \div 60

\* C24: with a timestamp that is not 0 and not after the current time, after
\* init, every data message and every minute tick the time-ago layer shows
\* "<m>m" for m = floor((now - timestamp) / 60) < 60 and "<floor(m / 60)>h"
\* from there on, for the current time and the stored timestamp, in full for
\* every age below 100 hours.
C24_TimeAgoCurrent ==
    (pc = "running" /\ s_bg_timestamp # U32Zero)
    => LET m == ReadingAgeMinutes
           text == IF m < 60 THEN Digits(m) \o <<109>> ELSE Digits(m \div 60) \o <<104>>
       IN /\ time_ago_layer_text
          /\ m < 100 * 60 => CStr(s_time_ago_buffer) = text
          /\ CStr(s_time_ago_buffer) = Truncated(text, TIME_AGO_BUFFER_SIZE)

\* a reading of 59 minutes became one of "1h" by a minute tick
C24_Witness ==
    /\ pc = "running"
    /\ now > Now0
    /\ s_bg_timestamp # U32Zero
    /\ ReadingAgeMinutes = 60
    /\ CStr(s_time_ago_buffer) = <<49, 104>>

\* The last announcement failed, at the begin or at the send.
AnnouncementFailed(o) == o.begin # "APP_MSG_OK" \/ o.send # "APP_MSG_OK"

\* C25: when app_message_outbox_begin fails no field is written and
\* app_message_outbox_send is not called; a call that fails at the begin or
\* at the send is one attempt, is followed by no attempt of its own (the next
\* one takes init or a connection), and leaves the reading, the series and
\* the thresholds as they are (init under TEST_MODE loads its test data
\* before the call).
C25_FailureIsQuiet ==
    [][announcements' # announcements
       => /\ announcements' = announcements + 1
          /\ pc = "start" \/ connects' = connects + 1
          /\ outbox'.begin # "APP_MSG_OK"
             => outbox'.fields = {} /\ outbox'.send = "not_called"
          /\ (AnnouncementFailed(outbox') /\ (pc = "running" \/ ~TEST_MODE(rev)))
             => UNCHANGED decoderVars]_vars

\* a connection's announcement failed at the begin while the decoder holds a
\* reading
C25_Witness ==
    /\ connects >= 1
    /\ outbox.begin = "APP_MSG_BUSY"
    /\ outbox.fields = {}
    /\ data_seen
    /\ pc = "running"

\* ------------------------------------------------------------------------
\* Claims about the event loop (under SpecLoop)
\* ------------------------------------------------------------------------

\* The count the renderer reads and the points below it were stored by one
\* accepted message (or by the initial data).
SeriesWhole == s_graph_count = pts_written

\* C26: under the fair event loop every message whose graph payload is
\* accepted is followed by a run of graph_layer_update_proc, and every run of
\* graph_layer_update_proc reads a series stored whole by an accepted message.
C26_AcceptedIsDrawnWhole ==
    /\ (graph_outcome = "accepted" /\ graph_dirty) ~> (graph_drawn.ran /\ ~graph_dirty)
    /\ [][graph_layer_update_proc => SeriesWhole]_vars

\* ------------------------------------------------------------------------
\* Claims about the arrow bitmap and the window (under Spec)
\* ------------------------------------------------------------------------

\* C27: at most one arrow bitmap is allocated at any time, none is destroyed
\* twice, the allocated one is the one s_arrow_bitmap points to while the
\* window is up, and none is left once window_unload ran.
C27_OneBitmapNoLeak ==
    /\ heap.live <= 1
    /\ ~heap.destroyed_twice
    /\ pc \in {"start", "exited"} => heap.live = 0
    /\ pc = "running" => heap.live = (IF s_arrow_bitmap # 0 THEN 1 ELSE 0)

\* window_unload destroyed the bitmap of the last message's arrow
C27_Witness ==
    /\ pc = "exited"
    /\ data_seen
    /\ s_arrow_bitmap # 0
    /\ heap.live = 0

\* Call a, where it was made, was made before call b.
CalledBefore(a, b) ==
    \A j \in DOMAIN lifecycle :
        lifecycle[j] = b => \E i \in 1..(j - 1) : lifecycle[i] = a

\* C28: whenever new_xdrip_data_callback or minute_tick_callback runs, the
\* layers it writes to exist, before and after the run: window_load created
\* them and window_unload has not destroyed them.  init registers the
\* message, tick and connection callbacks before the window is loaded, and
\* deinit takes the three off before window_unload runs.
C28_LayersExistWhenCallbacksRun ==
    /\ [][((\E m \in ClockMessagesOf[rev] : new_xdrip_data_callback(m))
           \/ minute_tick_callback)
          => window_loaded /\ window_loaded']_vars
    /\ [](/\ CalledBefore("app_message_register_inbox_received", "window_load")
          /\ CalledBefore("tick_timer_service_subscribe", "window_load")
          /\ CalledBefore("connection_service_subscribe", "window_load")
          /\ CalledBefore("window_load", "window_unload")
          /\ CalledBefore("app_message_deregister_callbacks", "window_unload")
          /\ CalledBefore("tick_timer_service_unsubscribe", "window_unload")
          /\ CalledBefore("connection_service_unsubscribe", "window_unload"))

\* the callbacks ran while the window was up, and deinit took it down
C28_Witness ==
    /\ pc = "exited"
    /\ data_seen
    /\ now > Now0
    /\ ~window_loaded
    /\ \E j \in DOMAIN lifecycle : lifecycle[j] = "window_unload"

\* ------------------------------------------------------------------------
\* Claims about a message delivered twice (under SpecAny)
\* ------------------------------------------------------------------------

\* C29: a message delivered again right after it was delivered, be it
\* accepted, rejected or lacking the timestamp, leaves the reading, the
\* series and the thresholds as its first delivery left them.
C29_SecondDeliveryChangesNothing ==
    [][\A m \in AnyMessagesOf[rev] :
          (new_xdrip_data_callback(m) /\ redelivered') => UNCHANGED decoderVars]_vars

\* a message with every key and a bg string longer than its buffer was
\* delivered twice
C29_Witness ==
    /\ redelivered
    /\ last_msg.keys = KeyNames
    /\ last_msg.bg = BG_LONG
    /\ graph_outcome = "accepted"

====
